---- MODULE Spec2Model ----
(***************************************************************************)
(* secret-fills: the concurrent search of secret_fills.run.  One worker    *)
(* thread per query pulls yt-dlp records through search(), puts every      *)
(* yielded SearchResult on the `results` queue (read by the consumer       *)
(* thread, which writes results.txt) and on the `store` queue (drained     *)
(* into the list that run returns).                                        *)
(***************************************************************************)
EXTENDS Integers, Sequences, FiniteSets, Bags, TLC

(***************************************************************************)
(* Bounds of the model.                                                    *)
(***************************************************************************)
\* args.number (-n): yt-dlp yields at most that many records for a query
MaxNumber == 2

(***************************************************************************)
(* Values.  An optional value (datetime | None) is <<>> for None and <<v>> *)
(* for v.  A datetime is the integer yyyymmdd; texts are sequences of      *)
(* tokens.                                                                 *)
(***************************************************************************)
NoneVal == <<>>
Some(v) == <<v>>

Range(seq) == {seq[k] : k \in DOMAIN seq}

\* datetime.strptime(s, "%Y%m%d")
strptime_Ymd(s) ==
    CASE s = "20230101" -> 20230101
      [] s = "20230105" -> 20230105
      [] s = "20230110" -> 20230110

\* datetime.strptime(s, "%Y-%m-%d")
strptime_Y_m_d(s) ==
    CASE s = "2023-01-01" -> 20230101
      [] s = "2023-01-05" -> 20230105
      [] s = "2023-01-06" -> 20230106
      [] s = "2023-01-10" -> 20230110

\* datetime.strftime("%Y-%m-%d")
strftime_Y_m_d(d) ==
    CASE d = 20230101 -> "2023-01-01"
      [] d = 20230105 -> "2023-01-05"
      [] d = 20230106 -> "2023-01-06"
      [] d = 20230110 -> "2023-01-10"

Digit == <<"0", "1", "2", "3", "4", "5", "6", "7", "8", "9">>

\* str(n) of a non-negative integer, as the f-string {similarity} renders it
RECURSIVE IntStr(_)
IntStr(n) == IF n < 10 THEN Digit[n + 1] ELSE IntStr(n \div 10) \o Digit[(n % 10) + 1]

\* format(n, "03"): zero-padded to three digits
Format03(n) ==
    IF n < 10 THEN "00" \o IntStr(n)
    ELSE IF n < 100 THEN "0" \o IntStr(n)
    ELSE IntStr(n)

\* termcolor.colored(text, color): the text between a colour code and a reset
colored(text, color) == <<"<" \o color \o ">">> \o text \o <<"<reset>">>

(***************************************************************************)
(* The backend: the records yt-dlp prints, one JSON object per line.       *)
(***************************************************************************)
VideoData(id, uploader, date, title) ==
    [json |-> TRUE, display_id |-> id, uploader |-> uploader, upload_date |-> date,
     title |-> title, original_url |-> "https://youtu.be/" \o id]

\* a line json.loads cannot parse
Garbage ==
    [json |-> FALSE, display_id |-> "", uploader |-> "", upload_date |-> "",
     title |-> <<>>, original_url |-> ""]

V1 == VideoData("a1", "X", "20230105", <<"foo", " | ", "bar">>)
V2 == VideoData("a2", "Y", "20230101", <<"foo bar live">>)
V3 == VideoData("a3", "Spam", "20230110", <<"foo bar live">>)

\* what YouTube ranks, best first; a search yields some of it in this order
Catalogue == <<V1, V2, Garbage, V3>>

\* thefuzz.fuzz.partial_ratio(title, search_string)
partial_ratio(title, search_string) ==
    CASE title = <<"foo bar live">> /\ search_string = "foo bar" -> 100
      [] title = <<"foo bar live">> /\ search_string = "unrelated" -> 40
      [] title = <<"foo", " | ", "bar">> /\ search_string = "foo bar" -> 60
      [] title = <<"foo", " | ", "bar">> /\ search_string = "unrelated" -> 60
      [] OTHER -> 0

(***************************************************************************)
(* State.                                                                  *)
(***************************************************************************)
VARIABLES
    args,             \* the Namespace run is called with
    ytdlp,            \* ytdlp[i]: the lines yt-dlp prints for the i-th query
    playlist,         \* what get_ids_from_playlist returns
    known_ids_pkl,    \* what the known-ids pickle holds
    results_txt,      \* the lines of results.txt
    known_ids,        \* run: known_ids
    search_terms,     \* run: search_terms
    ignore_dates,     \* run: ignore_dates
    ignored_channels, \* run: ignored_channels
    mpc,              \* where the thread calling run is
    mi,               \* its index in `for worker in workers`
    wpc,              \* wpc[i]: where worker i is
    wpos,             \* wpos[i]: the lines worker i's search has read
    wres,             \* wres[i]: the result worker i's loop holds
    emitted,          \* emitted[i]: the results search has yielded in worker i
    results,          \* the results queue
    unfinished,       \* results.unfinished_tasks
    store,            \* the store queue
    cpc,              \* where the consumer thread is
    cres,             \* the result the consumer holds
    q,                \* run: the list q it returns
    stdout,           \* the lines printed
    arrival,          \* the results in the order store.put took them
    to_show           \* show_results: its list `results`

inputs == <<args, ytdlp, playlist, known_ids_pkl>>
locals == <<known_ids, search_terms, ignore_dates, ignored_channels>>
workerVars == <<wpc, wpos, wres, emitted>>
vars == <<inputs, results_txt, locals, mpc, mi, workerVars, results, unfinished,
          store, cpc, cres, q, stdout, arrival, to_show>>

(***************************************************************************)
(* Inputs.                                                                 *)
(***************************************************************************)
\* the elements of seq at the indices in S, in order
RECURSIVE Pick(_, _, _)
Pick(seq, S, i) ==
    IF i > Len(seq) THEN <<>>
    ELSE (IF i \in S THEN <<seq[i]>> ELSE <<>>) \o Pick(seq, S, i + 1)

\* the outputs yt-dlp can give for "ytsearch{n}:...": at most n records
SearchOutputs(n) ==
    {Pick(Catalogue, S, 1) : S \in {T \in SUBSET (1..Len(Catalogue)) : Cardinality(T) <= n}}

\* the rows csv.DictReader yields for the -f file
QueryFiles ==
    {<<>>} \cup {<<[Date |-> d, Title |-> "unrelated"]>> : d \in {"2023-01-05", "2023-01-06"}}

\* a line an earlier run left in results.txt
StaleLine ==
    <<"2022-12-31", " | ", "77", " | ", "old", " | ", "Z", " | ", "https://youtu.be/zz">>

ArgsSet ==
    [number : {MaxNumber},
     search_terms : {<<>>, <<"foo bar">>},
     file : QueryFiles,
     ignore_uploaders : {<<>>, <<"Spam">>},
     known : {"none", "playlist", "file"},
     quiet : {FALSE},
     min_similarity : {0}]

NumQueries(a) == Len(a.search_terms) + Len(a.file)

Init ==
    /\ args \in ArgsSet
    /\ ytdlp \in [1..NumQueries(args) -> SearchOutputs(args.number)]
    /\ playlist = {"a2"}
    /\ known_ids_pkl = {"a2"}
    /\ results_txt = <<StaleLine>>
    /\ known_ids = {}
    /\ search_terms = <<>>
    /\ ignore_dates = <<>>
    /\ ignored_channels = <<>>
    /\ mpc = "setup"
    /\ mi = 1
    /\ wpc = <<>>
    /\ wpos = <<>>
    /\ wres = <<>>
    /\ emitted = <<>>
    /\ results = <<>>
    /\ unfinished = 0
    /\ store = <<>>
    /\ cpc = "unstarted"
    /\ cres = <<>>
    /\ q = <<>>
    /\ stdout = <<>>
    /\ arrival = <<>>
    /\ to_show = <<>>

(***************************************************************************)
(* search and format_search_result.                                        *)
(***************************************************************************)
SearchResult(colored_display, display, search_term, similarity) ==
    [colored_display |-> colored_display, display |-> display,
     search_term |-> search_term, similarity |-> similarity]

sim_color(similarity) ==
    IF similarity >= 80 THEN "red"
    ELSE IF similarity >= 50 THEN "yellow"
    ELSE "white"

\* the pair (colored_display, display)
format_search_result(raw, similarity) ==
    LET title == raw.title
        uploader == raw.uploader
        upload_date == strftime_Y_m_d(strptime_Ymd(raw.upload_date))
        url == raw.original_url
        similarity_str == colored(<<Format03(similarity)>>, sim_color(similarity))
    IN  <<colored(<<upload_date>>, "white") \o <<" | ">> \o similarity_str \o <<" | ">>
            \o colored(title, "green") \o <<" | ">> \o colored(<<uploader>>, "yellow")
            \o <<" | ", url>>,
          <<upload_date, " | ", IntStr(similarity), " | ">> \o title
            \o <<" | ", uploader, " | ", url>>>>

\* IgnoredUploader with the uploader test left out
IgnoredUploader_Never(result, ignore_uploaders) == FALSE

\* TooOld with <= for <: a record published at the cutoff is dropped too
TooOld_Inclusive(result, ignore_before) ==
    ignore_before # NoneVal /\ strptime_Ymd(result.upload_date) <= ignore_before[1]

\* the three filters of search, in the order it applies them
IgnoredUploader(result, ignore_uploaders) ==
    \E k \in 1..Len(ignore_uploaders) : ignore_uploaders[k] = result.uploader

IgnoredId(result, ignore_ids) == result.display_id \in ignore_ids

TooOld(result, ignore_before) ==
    ignore_before # NoneVal /\ strptime_Ymd(result.upload_date) < ignore_before[1]

\* search with a line that does not parse skipped instead of raising
RECURSIVE search_SkipsBadLine(_, _, _, _, _, _)
search_SkipsBadLine(lines, pos, search_string, ignore_uploaders, ignore_ids, ignore_before) ==
    IF pos >= Len(lines) THEN [kind |-> "stop", pos |-> pos]
    ELSE LET result == lines[pos + 1] IN
         IF \/ ~result.json
            \/ result.uploader \in Range(ignore_uploaders)
            \/ result.display_id \in ignore_ids
            \/ (ignore_before # NoneVal
                  /\ strptime_Ymd(result.upload_date) < ignore_before[1])
         THEN search_SkipsBadLine(lines, pos + 1, search_string, ignore_uploaders,
                                  ignore_ids, ignore_before)
         ELSE LET similarity == partial_ratio(result.title, search_string)
                  shown == format_search_result(result, similarity)
              IN  [kind |-> "yield", pos |-> pos + 1,
                   result |-> SearchResult(shown[1], shown[2], search_string, similarity)]

\* one next() of the generator search(search_string, ...), having read pos lines:
\* read on until a record passes the filters (yield), a line does not parse
\* (raise) or the output ends (stop)
RECURSIVE search(_, _, _, _, _, _)
search(lines, pos, search_string, ignore_uploaders, ignore_ids, ignore_before) ==
    IF pos >= Len(lines) THEN [kind |-> "stop", pos |-> pos]
    ELSE LET result == lines[pos + 1] IN
         IF ~result.json THEN [kind |-> "raise", pos |-> pos + 1]
         ELSE IF IgnoredUploader(result, ignore_uploaders)
              THEN search(lines, pos + 1, search_string, ignore_uploaders, ignore_ids, ignore_before)
         ELSE IF IgnoredId(result, ignore_ids)
              THEN search(lines, pos + 1, search_string, ignore_uploaders, ignore_ids, ignore_before)
         ELSE IF TooOld(result, ignore_before)
              THEN search(lines, pos + 1, search_string, ignore_uploaders, ignore_ids, ignore_before)
         ELSE LET similarity == partial_ratio(result.title, search_string)
                  shown == format_search_result(result, similarity)
              IN  [kind |-> "yield", pos |-> pos + 1,
                   result |-> SearchResult(shown[1], shown[2], search_string, similarity)]

(***************************************************************************)
(* run, up to the start of the threads.                                    *)
(***************************************************************************)
\* KnownIds with the --known-ids file forgotten
KnownIds_PlaylistOnly(a) == IF a.known = "playlist" THEN playlist ELSE {}

\* run: known_ids, from --playlist-url, from --known-ids, or empty
KnownIds(a) ==
    IF a.known = "playlist" THEN playlist
    ELSE IF a.known = "file" THEN known_ids_pkl
    ELSE {}

\* SearchTerms with the rows of the -f file forgotten
SearchTerms_NoFile(a) == a.search_terms

\* run: search_terms, the -s terms and then the Title of each row of the -f file
SearchTerms(a) == a.search_terms \o [k \in 1..Len(a.file) |-> a.file[k].Title]

\* run: ignore_dates, None for each -s term and its own Date for each row
IgnoreDates(a) ==
    [k \in 1..Len(a.search_terms) |-> NoneVal]
        \o [k \in 1..Len(a.file) |-> Some(strptime_Y_m_d(a.file[k].Date))]

Workers == 1..Len(wpc)

Setup ==
    /\ mpc = "setup"
    /\ known_ids' = KnownIds(args)
    /\ known_ids_pkl' = IF args.known = "playlist" THEN playlist ELSE known_ids_pkl
    /\ search_terms' = SearchTerms(args)
    /\ ignore_dates' = IgnoreDates(args)
    /\ ignored_channels' = args.ignore_uploaders
    /\ wpc' = [k \in 1..Len(SearchTerms(args)) |-> "unstarted"]
    /\ wpos' = [k \in 1..Len(SearchTerms(args)) |-> 0]
    /\ wres' = [k \in 1..Len(SearchTerms(args)) |-> NoneVal]
    /\ emitted' = [k \in 1..Len(SearchTerms(args)) |-> <<>>]
    /\ mpc' = "start_workers"
    /\ mi' = 1
    /\ UNCHANGED <<args, ytdlp, playlist, results_txt, results, unfinished, store,
                   cpc, cres, q, stdout, arrival, to_show>>

\* for worker in workers: worker.start()
StartWorker ==
    /\ mpc = "start_workers"
    /\ mi <= Len(wpc)
    /\ wpc' = [wpc EXCEPT ![mi] = "next"]
    /\ mi' = mi + 1
    /\ UNCHANGED <<inputs, results_txt, locals, mpc, wpos, wres, emitted, results,
                   unfinished, store, cpc, cres, q, stdout, arrival, to_show>>

\* consumer.start()
StartConsumer ==
    /\ mpc = "start_workers"
    /\ mi > Len(wpc)
    /\ cpc' = "open"
    /\ mpc' = "join_workers"
    /\ mi' = 1
    /\ UNCHANGED <<inputs, results_txt, locals, workerVars, results, unfinished,
                   store, cres, q, stdout, arrival, to_show>>

(***************************************************************************)
(* do_search, the body of worker i.                                        *)
(***************************************************************************)
\* put for a queue that hands out its newest item first
put_Front(queue, item) == <<item>> \o queue

\* Queue.put
put(queue, item) == Append(queue, item)

\* WorkerNext going on with the next line when a line does not parse
WorkerNext_ResumesAfterRaise(i) ==
    /\ wpc[i] = "next"
    /\ LET r == search(ytdlp[i], wpos[i], search_terms[i], ignored_channels,
                       known_ids, ignore_dates[i])
       IN  /\ wpos' = [wpos EXCEPT ![i] = r.pos]
           /\ IF r.kind = "yield"
              THEN /\ wres' = [wres EXCEPT ![i] = Some(r.result)]
                   /\ emitted' = [emitted EXCEPT ![i] = Append(@, r.result)]
                   /\ wpc' = [wpc EXCEPT ![i] = "put_results"]
              ELSE /\ wpc' = [wpc EXCEPT ![i] = IF r.kind = "stop" THEN "done" ELSE "next"]
                   /\ UNCHANGED <<wres, emitted>>
    /\ UNCHANGED <<inputs, results_txt, locals, mpc, mi, results, unfinished, store,
                   cpc, cres, q, stdout, arrival, to_show>>

\* WorkerNext scoring every query's records against the first search term
WorkerNext_FirstTerm(i) ==
    /\ wpc[i] = "next"
    /\ LET r == search(ytdlp[i], wpos[i], search_terms[1], ignored_channels,
                       known_ids, ignore_dates[i])
       IN  /\ wpos' = [wpos EXCEPT ![i] = r.pos]
           /\ IF r.kind = "yield"
              THEN /\ wres' = [wres EXCEPT ![i] = Some(r.result)]
                   /\ emitted' = [emitted EXCEPT ![i] = Append(@, r.result)]
                   /\ wpc' = [wpc EXCEPT ![i] = "put_results"]
              ELSE /\ wpc' = [wpc EXCEPT ![i] = IF r.kind = "stop" THEN "done" ELSE "raised"]
                   /\ UNCHANGED <<wres, emitted>>
    /\ UNCHANGED <<inputs, results_txt, locals, mpc, mi, results, unfinished, store,
                   cpc, cres, q, stdout, arrival, to_show>>

\* WorkerNext adding the id of each record it yields to the shared known_ids
WorkerNext_MarksSeen(i) ==
    /\ wpc[i] = "next"
    /\ LET r == search(ytdlp[i], wpos[i], search_terms[i], ignored_channels,
                       known_ids, ignore_dates[i])
       IN  /\ wpos' = [wpos EXCEPT ![i] = r.pos]
           /\ IF r.kind = "yield"
              THEN /\ wres' = [wres EXCEPT ![i] = Some(r.result)]
                   /\ emitted' = [emitted EXCEPT ![i] = Append(@, r.result)]
                   /\ wpc' = [wpc EXCEPT ![i] = "put_results"]
                   /\ known_ids' = known_ids \cup {ytdlp[i][r.pos].display_id}
              ELSE /\ wpc' = [wpc EXCEPT ![i] = IF r.kind = "stop" THEN "done" ELSE "raised"]
                   /\ UNCHANGED <<wres, emitted, known_ids>>
    /\ UNCHANGED <<inputs, results_txt, search_terms, ignore_dates, ignored_channels,
                   mpc, mi, results, unfinished, store, cpc, cres, q, stdout, arrival, to_show>>

\* for result in search(...): the generator's next()
WorkerNext(i) ==
    /\ wpc[i] = "next"
    /\ LET r == search(ytdlp[i], wpos[i], search_terms[i], ignored_channels,
                       known_ids, ignore_dates[i])
       IN  /\ wpos' = [wpos EXCEPT ![i] = r.pos]
           /\ IF r.kind = "yield"
              THEN /\ wres' = [wres EXCEPT ![i] = Some(r.result)]
                   /\ emitted' = [emitted EXCEPT ![i] = Append(@, r.result)]
                   /\ wpc' = [wpc EXCEPT ![i] = "put_results"]
              ELSE /\ wpc' = [wpc EXCEPT ![i] = IF r.kind = "stop" THEN "done" ELSE "raised"]
                   /\ UNCHANGED <<wres, emitted>>
    /\ UNCHANGED <<inputs, results_txt, locals, mpc, mi, results, unfinished, store,
                   cpc, cres, q, stdout, arrival, to_show>>

\* results.put(result)
WorkerPutResults(i) ==
    /\ wpc[i] = "put_results"
    /\ results' = put(results, wres[i][1])
    /\ unfinished' = unfinished + 1
    /\ wpc' = [wpc EXCEPT ![i] = "put_store"]
    /\ UNCHANGED <<inputs, results_txt, locals, mpc, mi, wpos, wres, emitted, store,
                   cpc, cres, q, stdout, arrival, to_show>>

\* WorkerPutStore with the put on the store queue forgotten
WorkerPutStore_Skips(i) ==
    /\ wpc[i] = "put_store"
    /\ wres' = [wres EXCEPT ![i] = NoneVal]
    /\ wpc' = [wpc EXCEPT ![i] = "next"]
    /\ UNCHANGED <<inputs, results_txt, locals, mpc, mi, wpos, emitted, results,
                   unfinished, store, cpc, cres, q, stdout, arrival, to_show>>

\* store.put(result)
WorkerPutStore(i) ==
    /\ wpc[i] = "put_store"
    /\ store' = put(store, wres[i][1])
    /\ arrival' = Append(arrival, wres[i][1])
    /\ wres' = [wres EXCEPT ![i] = NoneVal]
    /\ wpc' = [wpc EXCEPT ![i] = "next"]
    /\ UNCHANGED <<inputs, results_txt, locals, mpc, mi, wpos, emitted, results,
                   unfinished, cpc, cres, q, stdout, to_show>>

(***************************************************************************)
(* print_results, the body of the consumer thread.                         *)
(***************************************************************************)
\* open("results.txt", "w"): the file is created or truncated
ConsumerOpen ==
    /\ cpc = "open"
    /\ results_txt' = <<>>
    /\ cpc' = "get"
    /\ UNCHANGED <<inputs, locals, mpc, mi, workerVars, results, unfinished, store,
                   cres, q, stdout, arrival, to_show>>

\* result = results.get(), which blocks while the queue is empty
ConsumerGet ==
    /\ cpc = "get"
    /\ results # <<>>
    /\ cres' = Some(Head(results))
    /\ results' = Tail(results)
    /\ cpc' = "write"
    /\ UNCHANGED <<inputs, results_txt, locals, mpc, mi, workerVars, unfinished,
                   store, q, stdout, arrival, to_show>>

\* ConsumerWrite writing the line without its last field
ConsumerWrite_Partial ==
    /\ cpc = "write"
    /\ stdout' = IF args.quiet THEN stdout ELSE Append(stdout, cres[1].colored_display)
    /\ results_txt' = Append(results_txt,
                             SubSeq(cres[1].display, 1, Len(cres[1].display) - 2))
    /\ cpc' = "task_done"
    /\ UNCHANGED <<inputs, locals, mpc, mi, workerVars, results, unfinished, store,
                   cres, q, arrival, to_show>>

\* print(result.colored_display) unless quiet; f.write(f"{result.display}\n")
ConsumerWrite ==
    /\ cpc = "write"
    /\ stdout' = IF args.quiet THEN stdout ELSE Append(stdout, cres[1].colored_display)
    /\ results_txt' = Append(results_txt, cres[1].display)
    /\ cpc' = "task_done"
    /\ UNCHANGED <<inputs, locals, mpc, mi, workerVars, results, unfinished, store,
                   cres, q, arrival, to_show>>

\* results.task_done()
ConsumerTaskDone ==
    /\ cpc = "task_done"
    /\ unfinished' = unfinished - 1
    /\ cres' = NoneVal
    /\ cpc' = "get"
    /\ UNCHANGED <<inputs, results_txt, locals, mpc, mi, workerVars, results, store,
                   q, stdout, arrival, to_show>>

\* open("results.txt", "w") raises OSError: nothing in print_results or in
\* the thread catches it, so the consumer thread ends; the file is left as it was
ConsumerOpenFails ==
    /\ cpc = "open"
    /\ cpc' = "raised"
    /\ UNCHANGED <<inputs, results_txt, locals, mpc, mi, workerVars, results,
                   unfinished, store, cres, q, stdout, arrival, to_show>>

\* f.write raises OSError after the print: the consumer thread ends with the
\* result it holds never marked done
ConsumerWriteFails ==
    /\ cpc = "write"
    /\ stdout' = IF args.quiet THEN stdout ELSE Append(stdout, cres[1].colored_display)
    /\ cpc' = "raised"
    /\ UNCHANGED <<inputs, results_txt, locals, mpc, mi, workerVars, results,
                   unfinished, store, cres, q, arrival, to_show>>

(***************************************************************************)
(* run, from the joins to its return.                                      *)
(***************************************************************************)
\* Ended for a join that does not wait
Ended_NoWait(i) == TRUE

\* Ended for a join that a worker ended by an exception never releases
Ended_OnlyReturn(i) == wpc[i] = "done"

\* Thread.join returns once the thread has ended, by return or by an exception
Ended(i) == wpc[i] \in {"done", "raised"}

\* JoinWorker with the join left out: the loop goes on without waiting
JoinWorker_NoWait ==
    /\ mpc = "join_workers"
    /\ mi <= Len(wpc)
    /\ mi' = mi + 1
    /\ UNCHANGED <<inputs, results_txt, locals, mpc, workerVars, results, unfinished,
                   store, cpc, cres, q, stdout, arrival, to_show>>

\* for worker in workers: worker.join()
JoinWorker ==
    /\ mpc = "join_workers"
    /\ mi <= Len(wpc)
    /\ Ended(mi)
    /\ mi' = mi + 1
    /\ UNCHANGED <<inputs, results_txt, locals, mpc, workerVars, results, unfinished,
                   store, cpc, cres, q, stdout, arrival, to_show>>

\* AllTasksDone for a results.join() that does not wait
AllTasksDone_NoWait == TRUE

\* Queue.join returns once every item put has been marked task_done
AllTasksDone == unfinished = 0

\* results.join()
ResultsJoin ==
    /\ mpc = "join_workers"
    /\ mi > Len(wpc)
    /\ AllTasksDone
    /\ mpc' = "queue_into_list"
    /\ UNCHANGED <<inputs, results_txt, locals, mi, workerVars, results, unfinished,
                   store, cpc, cres, q, stdout, arrival, to_show>>

\* QueueIntoListGet keeping one entry per url: a later result for a url is dropped
QueueIntoListGet_SkipsSeenUrl ==
    /\ mpc = "queue_into_list"
    /\ store # <<>>
    /\ q' = IF \E k \in 1..Len(q) :
                   q[k].display[Len(q[k].display)] = Head(store).display[Len(Head(store).display)]
            THEN q
            ELSE Append(q, Head(store))
    /\ store' = Tail(store)
    /\ UNCHANGED <<inputs, results_txt, locals, mpc, mi, workerVars, results,
                   unfinished, cpc, cres, stdout, arrival, to_show>>

\* QueueIntoListGet inserting at the front of the list
QueueIntoListGet_Prepend ==
    /\ mpc = "queue_into_list"
    /\ store # <<>>
    /\ q' = <<Head(store)>> \o q
    /\ store' = Tail(store)
    /\ UNCHANGED <<inputs, results_txt, locals, mpc, mi, workerVars, results,
                   unfinished, cpc, cres, stdout, arrival, to_show>>

\* queue_into_list: element = q.get_nowait(); lst.append(element)
QueueIntoListGet ==
    /\ mpc = "queue_into_list"
    /\ store # <<>>
    /\ q' = Append(q, Head(store))
    /\ store' = Tail(store)
    /\ UNCHANGED <<inputs, results_txt, locals, mpc, mi, workerVars, results,
                   unfinished, cpc, cres, stdout, arrival, to_show>>

\* queue_into_list: except Empty: return; run: return q
Return ==
    /\ mpc = "queue_into_list"
    /\ store = <<>>
    /\ mpc' = "returned"
    /\ UNCHANGED <<inputs, results_txt, locals, mi, workerVars, results, unfinished,
                   store, cpc, cres, q, stdout, arrival, to_show>>

\* run returns q and nothing else: it hands its caller no query as incomplete
Incomplete == {}

Next ==
    \/ Setup
    \/ StartWorker
    \/ StartConsumer
    \/ \E i \in Workers : WorkerNext(i)
    \/ \E i \in Workers : WorkerPutResults(i)
    \/ \E i \in Workers : WorkerPutStore(i)
    \/ ConsumerOpen
    \/ ConsumerGet
    \/ ConsumerWrite
    \/ ConsumerTaskDone
    \/ JoinWorker
    \/ ResultsJoin
    \/ QueueIntoListGet
    \/ Return

Spec == Init /\ [][Next]_vars

\* the run on a file system where opening or writing results.txt can fail
NextPersist ==
    \/ Next
    \/ ConsumerOpenFails
    \/ ConsumerWriteFails

SpecPersist == Init /\ [][NextPersist]_vars

(***************************************************************************)
(* What the properties below speak of.                                     *)
(***************************************************************************)
Returned == mpc = "returned"

\* a sequence as a multiset: how often each element occurs
BagOfSeq(seq) == [x \in Range(seq) |-> Cardinality({k \in DOMAIN seq : seq[k] = x})]

\* the concatenation of seqs[from], seqs[from + 1], ...
RECURSIVE Flatten(_, _)
Flatten(seqs, from) ==
    IF from > Len(seqs) THEN <<>> ELSE seqs[from] \o Flatten(seqs, from + 1)

\* every result a search stage has emitted so far, stage by stage
AllEmitted == Flatten(emitted, 1)

\* the fields of a display line "date | score | title | uploader | url"
UrlOf(display) == display[Len(display)]
UploaderOf(display) == display[Len(display) - 2]

\* the candidate identifier (display_id) a result is about
IdOf(result) ==
    CHOOSE id \in {"a1", "a2", "a3"} : UrlOf(result.display) = "https://youtu.be/" \o id

\* the highest similarity among the results of seq that are about id
MaxScore(seq, id) ==
    CHOOSE m \in {seq[k].similarity : k \in {j \in DOMAIN seq : IdOf(seq[j]) = id}} :
        \A k \in DOMAIN seq : IdOf(seq[k]) = id => seq[k].similarity <= m

EmittedIds == {IdOf(AllEmitted[k]) : k \in DOMAIN AllEmitted}

\* everything search yields from lines, read from pos to its end or first failure
RECURSIVE Yields(_, _, _, _, _, _)
Yields(lines, pos, search_string, ignore_uploaders, ignore_ids, ignore_before) ==
    LET r == search(lines, pos, search_string, ignore_uploaders, ignore_ids, ignore_before)
    IN  IF r.kind = "yield"
        THEN <<r.result>> \o Yields(lines, r.pos, search_string, ignore_uploaders,
                                    ignore_ids, ignore_before)
        ELSE <<>>

\* what the run returns when the workers run one after the other, each to its end
SequentialRun(outputs) ==
    Flatten([i \in 1..Len(search_terms) |->
                Yields(outputs[i], 0, search_terms[i], ignored_channels, known_ids,
                       ignore_dates[i])], 1)

\* the lines the consumer has written to results.txt since it opened the file
Appended == IF cpc \in {"unstarted", "open"} THEN <<>> ELSE results_txt

(***************************************************************************)
(* C1.  Claimed: when run returns, its collection holds exactly one entry  *)
(* per distinct identifier emitted, carrying the highest score emitted for *)
(* that identifier.                                                        *)
(***************************************************************************)
\* C1 as claimed: one entry per identifier, with the maximum score
C1_OneEntryPerIdentifier ==
    Returned =>
        /\ {IdOf(q[k]) : k \in DOMAIN q} = EmittedIds
        /\ \A k, j \in DOMAIN q : IdOf(q[k]) = IdOf(q[j]) => k = j
        /\ \A k \in DOMAIN q : q[k].similarity = MaxScore(AllEmitted, IdOf(q[k]))

\* C1 as the code has it: when run returns, its list holds one entry per emitted
\* result (an identifier emitted twice is held twice), so the identifiers held
\* are the identifiers emitted and the highest score held for each of them is
\* the highest score emitted for it
C1_MaxScoreHeld ==
    Returned =>
        /\ Len(q) = Len(AllEmitted)
        /\ {IdOf(q[k]) : k \in DOMAIN q} = EmittedIds
        /\ \A id \in EmittedIds : MaxScore(q, id) = MaxScore(AllEmitted, id)

\* two queries have both yielded a3, with scores 100 and 40, and run has returned
C1_Witness ==
    /\ Returned
    /\ \E k, j \in DOMAIN AllEmitted :
          /\ IdOf(AllEmitted[k]) = "a3" /\ AllEmitted[k].similarity = 100
          /\ IdOf(AllEmitted[j]) = "a3" /\ AllEmitted[j].similarity = 40

(***************************************************************************)
(* C2.  Claimed: what run returns is the same in every interleaving of the *)
(* workers.  The schedule that runs the workers one after the other, each  *)
(* to its end, is one of the interleavings, so the claim holds exactly     *)
(* when every run returns what that schedule returns.                      *)
(***************************************************************************)
\* C2 as claimed: the returned list is the one of the sequential schedule
C2_SameInEveryInterleaving == Returned => q = SequentialRun(ytdlp)

\* C2 as the code has it: in every interleaving the returned list holds the
\* same results the same number of times; only their order depends on the
\* interleaving
C2_SameUpToOrder == Returned => BagOfSeq(q) = BagOfSeq(SequentialRun(ytdlp))

\* run has returned a list of at least two results in an order the sequential
\* schedule does not give
C2_Witness == Returned /\ Len(q) >= 2 /\ q # SequentialRun(ytdlp)

(***************************************************************************)
(* C3.  Claimed: of two emitted results with the same identifier and equal *)
(* score, the one that arrived first is the one the returned collection    *)
(* retains.                                                                *)
(***************************************************************************)
Tie(r1, r2) == IdOf(r1) = IdOf(r2) /\ r1.similarity = r2.similarity

\* C3 as claimed: the first to arrive is the only one of the two retained
C3_FirstSeenAloneRetained ==
    Returned =>
        \A a, b \in DOMAIN arrival :
            (a < b /\ Tie(arrival[a], arrival[b])) =>
                /\ arrival[a] \in Range(q)
                /\ Cardinality({k \in DOMAIN q : Tie(q[k], arrival[a])}) = 1

\* C3 as the code has it: both are retained, the first to arrive before the
\* later one, and neither replaces the other
C3_BothRetainedInArrivalOrder ==
    Returned =>
        \A a, b \in DOMAIN arrival :
            (a < b /\ Tie(arrival[a], arrival[b])) =>
                \E k, j \in DOMAIN q : k < j /\ q[k] = arrival[a] /\ q[j] = arrival[b]

\* two queries have both yielded a1 with score 60, and run has returned
C3_Witness ==
    /\ Returned
    /\ \E a, b \in DOMAIN arrival :
          a < b /\ Tie(arrival[a], arrival[b])
                /\ arrival[a].search_term # arrival[b].search_term

(***************************************************************************)
(* C4.  Every emitted result, a duplicate of an identifier included, is    *)
(* written as one line of results.txt before run returns.                  *)
(***************************************************************************)
\* C4: when run returns, the lines the consumer has written are the display
\* texts of the emitted results, one line for each emitted result
C4_EveryResultAppended ==
    Returned =>
        BagOfSeq(Appended) = BagOfSeq([k \in DOMAIN AllEmitted |-> AllEmitted[k].display])

\* run has returned after an identifier was emitted twice
C4_Witness ==
    /\ Returned
    /\ \E k, j \in DOMAIN AllEmitted : k # j /\ IdOf(AllEmitted[k]) = IdOf(AllEmitted[j])

(***************************************************************************)
(* C5.  run returns only after every worker has ended and every result put *)
(* on the results queue has been handled; nothing is added afterwards.     *)
(***************************************************************************)
\* C5: at the step that returns from run every worker has ended, by return or
\* by an exception, the results queue is empty with no task unfinished and the
\* consumer holds no result; and no step taken after the return changes the
\* lines appended to results.txt or the returned list
C5_ReturnsAfterAllDone ==
    [][ /\ (mpc' = "returned") =>
              /\ \A i \in DOMAIN wpc' : wpc'[i] \in {"done", "raised"}
              /\ unfinished' = 0
              /\ results' = <<>>
              /\ cpc' \in {"open", "get"}
        /\ (mpc = "returned") => (Appended' = Appended /\ q' = q) ]_vars

\* run has returned with one worker ended by an exception, one by return, and
\* the consumer has handled results
C5_Witness ==
    /\ Returned
    /\ \E i, j \in Workers : wpc[i] = "raised" /\ wpc[j] = "done"
    /\ Len(Appended) >= 2

(***************************************************************************)
(* C6.  A failure in one search stage ends that stage only.                *)
(***************************************************************************)
\* C6: run is never blocked before it returns, and when it returns every
\* stage, failed or not, has emitted everything its backend output yields up
\* to its end or its failure, and each of these results is both in the
\* returned list and in a line appended to results.txt
C6_FailureIsolated ==
    /\ ~Returned => ENABLED Next
    /\ Returned =>
          \A i \in Workers :
              /\ emitted[i] = Yields(ytdlp[i], 0, search_terms[i], ignored_channels,
                                     known_ids, ignore_dates[i])
              /\ \A k \in DOMAIN emitted[i] :
                    /\ emitted[i][k] \in Range(q)
                    /\ emitted[i][k].display \in Range(Appended)

\* one stage has failed after 1 of its 2 records, another has succeeded with
\* 2 results, and run has returned the 3 results
C6_Witness ==
    /\ Returned
    /\ \E i, j \in Workers :
          /\ wpc[i] = "raised" /\ Len(ytdlp[i]) = 2 /\ Len(emitted[i]) = 1
          /\ wpc[j] = "done" /\ Len(emitted[j]) = 2
    /\ Len(q) = 3

(***************************************************************************)
(* C7.  Claimed: besides the results, run returns the set of the queries   *)
(* whose stage failed.                                                     *)
(***************************************************************************)
\* the lines of a backend output before the first one that does not parse
RECURSIVE UpToFailure(_)
UpToFailure(lines) ==
    IF lines = <<>> \/ ~Head(lines).json THEN <<>>
    ELSE <<Head(lines)>> \o UpToFailure(Tail(lines))

\* C7 as claimed: the queries run reports as incomplete are those whose stage
\* ended by a failure
C7_IncompleteQueriesReturned ==
    Returned => Incomplete = {i \in Workers : wpc[i] = "raised"}

\* C7 as the code has it: run returns the list of results and nothing else; a
\* failed stage shows in it only by the results it did not emit, as the list
\* is the one run returns when each backend output ends where it fails
C7_FailureNotReturned ==
    Returned =>
        BagOfSeq(q) = BagOfSeq(SequentialRun([i \in DOMAIN ytdlp |-> UpToFailure(ytdlp[i])]))

\* run has returned after a stage failed with output left to read
C7_Witness ==
    /\ Returned
    /\ \E i \in Workers : wpc[i] = "raised" /\ wpos[i] < Len(ytdlp[i])
    /\ q # <<>>

(***************************************************************************)
(* C8.  A candidate of an excluded uploader is never emitted.              *)
(***************************************************************************)
Excluded(name, names) == \E k \in DOMAIN names : names[k] = name

\* C8: no emitted result, no entry of the returned list and no line appended
\* to results.txt has an uploader that args.ignore_uploaders names
C8_NoExcludedUploader ==
    /\ \A k \in DOMAIN AllEmitted :
          ~Excluded(UploaderOf(AllEmitted[k].display), args.ignore_uploaders)
    /\ \A k \in DOMAIN q : ~Excluded(UploaderOf(q[k].display), args.ignore_uploaders)
    /\ \A k \in DOMAIN Appended : ~Excluded(UploaderOf(Appended[k]), args.ignore_uploaders)

\* a stage has read a record of the excluded uploader, and run has returned
\* other results
C8_Witness ==
    /\ Returned
    /\ q # <<>>
    /\ \E i \in Workers : \E k \in 1..wpos[i] :
          Excluded(ytdlp[i][k].uploader, args.ignore_uploaders)

(***************************************************************************)
(* C9.  A candidate whose identifier is a known id is never emitted.       *)
(***************************************************************************)
\* the ids the caller excludes: those of the playlist or of the known-ids file
ExcludedIds ==
    CASE args.known = "playlist" -> playlist
      [] args.known = "file" -> known_ids_pkl
      [] OTHER -> {}

\* C9: no emitted result, no entry of the returned list and no line appended
\* to results.txt is about an identifier of the excluded-identifier set
C9_NoExcludedId ==
    /\ \A k \in DOMAIN AllEmitted : IdOf(AllEmitted[k]) \notin ExcludedIds
    /\ \A k \in DOMAIN q : IdOf(q[k]) \notin ExcludedIds
    /\ \A k \in DOMAIN Appended :
          UrlOf(Appended[k]) \notin {"https://youtu.be/" \o id : id \in ExcludedIds}

\* a stage has read a record with a known id, and run has returned other results
C9_Witness ==
    /\ Returned
    /\ q # <<>>
    /\ \E i \in Workers : \E k \in 1..wpos[i] : ytdlp[i][k].display_id \in ExcludedIds

(***************************************************************************)
(* C10.  Each candidate is filtered against the cutoff of its own query.   *)
(***************************************************************************)
\* the cutoff the caller gives query i: none for a -s term, the Date of its
\* row for a row of the -f file
CutoffOf(i) ==
    IF i <= Len(args.search_terms) THEN NoneVal
    ELSE Some(args.file[i - Len(args.search_terms)].Date)

\* the record is to be emitted for query i
ToEmit(record, i) ==
    /\ record.json
    /\ ~Excluded(record.uploader, args.ignore_uploaders)
    /\ record.display_id \notin ExcludedIds
    /\ \/ CutoffOf(i) = NoneVal
       \/ strptime_Ymd(record.upload_date) >= strptime_Y_m_d(CutoffOf(i)[1])

\* C10: at every moment the results stage i has emitted are, in order, the
\* records it has read that are excluded neither by uploader nor by id and
\* that query i's own cutoff, if it has one, does not precede strictly
C10_OwnCutoff ==
    \A i \in Workers :
        LET Test(record) == ToEmit(record, i)
            expected == SelectSeq(SubSeq(ytdlp[i], 1, wpos[i]), Test)
        IN  [k \in DOMAIN emitted[i] |-> UrlOf(emitted[i][k].display)]
                = [k \in DOMAIN expected |-> expected[k].original_url]

\* the stage of a -s term has emitted the old record a2, and the stage of a row
\* whose Date is that of a1 has read a2 and a1 and emitted a1 alone
C10_Witness ==
    /\ Returned
    /\ \E i, j \in Workers :
          /\ CutoffOf(i) = NoneVal
          /\ \E k \in DOMAIN emitted[i] : IdOf(emitted[i][k]) = "a2"
          /\ CutoffOf(j) = Some("2023-01-05")
          /\ ytdlp[j] = <<V1, V2>>
          /\ Len(emitted[j]) = 1 /\ IdOf(emitted[j][1]) = "a1"

(***************************************************************************)
(* C12.  Appends to results.txt are whole lines, one per emitted result.   *)
(***************************************************************************)
Count(seq, x) == Cardinality({k \in DOMAIN seq : seq[k] = x})

EmittedDisplays == [k \in DOMAIN AllEmitted |-> AllEmitted[k].display]

\* C12: at every moment, in every interleaving, each line appended to
\* results.txt is the whole display text of an emitted result, and no display
\* text has more lines than results were emitted with it
C12_WholeLines ==
    \A k \in DOMAIN Appended :
        /\ Appended[k] \in Range(EmittedDisplays)
        /\ Count(Appended, Appended[k]) <= Count(EmittedDisplays, Appended[k])

\* two stages are both still running and a line of each has been appended
C12_Witness ==
    \E i, j \in Workers :
        /\ i # j
        /\ wpc[i] \in {"next", "put_results", "put_store"}
        /\ wpc[j] \in {"next", "put_results", "put_store"}
        /\ emitted[i] # <<>> /\ emitted[j] # <<>>
        /\ emitted[i][1].display # emitted[j][1].display
        /\ emitted[i][1].display \in Range(Appended)
        /\ emitted[j][1].display \in Range(Appended)

(***************************************************************************)
(* C14.  Claimed: a record that cannot be parsed is skipped and the stage  *)
(* goes on with the rest of the backend output.                            *)
(***************************************************************************)
\* the urls of the records of lines that query i is to emit
UrlsToEmit(lines, i) ==
    LET Test(record) == ToEmit(record, i)
        expected == SelectSeq(lines, Test)
    IN  [k \in DOMAIN expected |-> expected[k].original_url]

EmittedUrls(i) == [k \in DOMAIN emitted[i] |-> UrlOf(emitted[i][k].display)]

\* C14 as claimed: when run returns, every well-formed record of a query that
\* passes the filters has been emitted, those after an unparsable line too
C14_BadRecordSkipped ==
    Returned => \A i \in Workers : EmittedUrls(i) = UrlsToEmit(ytdlp[i], i)

\* C14 as the code has it: a line that cannot be parsed ends the stage with an
\* exception; the stage has emitted the records before that line that pass the
\* filters and none of the records after it
C14_BadRecordEndsStage ==
    Returned =>
        \A i \in Workers :
            /\ EmittedUrls(i) = UrlsToEmit(UpToFailure(ytdlp[i]), i)
            /\ wpc[i] = "raised" <=> (\E k \in DOMAIN ytdlp[i] : ~ytdlp[i][k].json)

\* run has returned after a stage met an unparsable line with a record behind
\* it that passes the filters
C14_Witness ==
    /\ Returned
    /\ \E i \in Workers :
          /\ wpc[i] = "raised"
          /\ \E k \in DOMAIN ytdlp[i] : k > wpos[i] /\ ToEmit(ytdlp[i][k], i)

(***************************************************************************)
(* C15.  Claimed: one stage per query, and never more stages active at a   *)
(* time than a concurrency bound the caller supplies.                      *)
(***************************************************************************)
\* the stages that have been started and have not ended
Active == {i \in Workers : wpc[i] \in {"next", "put_results", "put_store"}}

\* the text of query i as the caller gives it
QueryText(i) ==
    IF i <= Len(args.search_terms) THEN args.search_terms[i]
    ELSE args.file[i - Len(args.search_terms)].Title

\* C15 as claimed: whatever bound of at least one stage the caller supplies,
\* no more stages than that are active at a time
C15_ActiveWithinBound ==
    \A bound \in 1..Len(wpc) : Cardinality(Active) <= bound

\* C15 as the code has it: run makes one stage per query and starts each of
\* them once, all before it waits for any; it takes no concurrency bound, and
\* the number of stages active at a time is bounded by the number of queries
C15_OneStagePerQuery ==
    mpc # "setup" =>
        /\ Len(wpc) = NumQueries(args)
        /\ \A i \in Workers : search_terms[i] = QueryText(i)
        /\ Cardinality(Active) <= NumQueries(args)
        /\ \A i \in Workers :
              wpc[i] = "unstarted" <=> (mpc = "start_workers" /\ i >= mi)

\* every query's stage is active at the same moment, with two queries
C15_Witness == Cardinality(Active) = 2 /\ NumQueries(args) = 2

(***************************************************************************)
(* C16.  Within one stage, results keep the order the backend yields.      *)
(***************************************************************************)
\* sub is t with some elements left out
RECURSIVE IsSubseq(_, _)
IsSubseq(sub, t) ==
    IF sub = <<>> THEN TRUE
    ELSE IF t = <<>> THEN FALSE
    ELSE IF Head(sub) = Head(t) THEN IsSubseq(Tail(sub), Tail(t))
    ELSE IsSubseq(sub, Tail(t))

\* C16: when run returns, the results of query i in the returned list are the
\* results stage i emitted, in the order it emitted them, which is the order
\* of their records in the backend output; and their display texts are lines
\* of results.txt in that same order
C16_YieldOrderKept ==
    Returned =>
        \A i \in Workers :
            LET Mine(r) == r.search_term = search_terms[i]
            IN  /\ SelectSeq(q, Mine) = emitted[i]
                /\ IsSubseq(EmittedUrls(i),
                            [k \in DOMAIN ytdlp[i] |-> ytdlp[i][k].original_url])
                /\ IsSubseq([k \in DOMAIN emitted[i] |-> emitted[i][k].display], Appended)

\* run has returned two stages' results, two of one stage among them, in an
\* order that mixes the stages
C16_Witness ==
    /\ Returned
    /\ \E i, j \in Workers : i # j /\ Len(emitted[i]) = 2 /\ emitted[j] # <<>>
    /\ q # SequentialRun(ytdlp)

(***************************************************************************)
(* C17.  A result records the query of its own stage and is scored against *)
(* that query.                                                             *)
(***************************************************************************)
\* the records stage i has read that it is to emit
Passing(i) ==
    LET Test(record) == ToEmit(record, i)
    IN  SelectSeq(SubSeq(ytdlp[i], 1, wpos[i]), Test)

\* C17: the k-th result stage i emits has the text of query i as search_term
\* and, as similarity, partial_ratio of its record's title and that text
C17_ScoredAgainstOwnQuery ==
    \A i \in Workers : \A k \in DOMAIN emitted[i] :
        /\ k <= Len(Passing(i))
        /\ emitted[i][k].search_term = QueryText(i)
        /\ emitted[i][k].similarity = partial_ratio(Passing(i)[k].title, QueryText(i))

\* the stage of the second query has emitted a3, which scores 40 against its
\* text and 100 against the first query's
C17_Witness ==
    /\ Len(wpc) = 2
    /\ \E k \in DOMAIN emitted[2] :
          /\ IdOf(emitted[2][k]) = "a3"
          /\ emitted[2][k].similarity = 40
          /\ partial_ratio(V3.title, QueryText(1)) = 100

(***************************************************************************)
(* C18.  The exclusion sets do not change once the workers exist.          *)
(***************************************************************************)
\* C18: no step taken after run has built its worker list changes known_ids or
\* ignored_channels
C18_ExclusionSetsFrozen ==
    [][ mpc # "setup" =>
            (known_ids' = known_ids /\ ignored_channels' = ignored_channels) ]_vars

\* run has returned results found with non-empty exclusion sets
C18_Witness ==
    /\ Returned
    /\ known_ids # {} /\ ignored_channels # <<>>
    /\ Len(q) >= 2

(***************************************************************************)
(* C20.  The returned list holds every emitted result exactly once.        *)
(***************************************************************************)
\* C20: when run returns, the returned list and the emitted results are equal
\* as multisets, and so are the display texts of the returned list and the
\* lines appended to results.txt
C20_NothingLostNothingAdded ==
    Returned =>
        /\ BagOfSeq(q) = BagOfSeq(AllEmitted)
        /\ BagOfSeq([k \in DOMAIN q |-> q[k].display]) = BagOfSeq(Appended)

\* run has returned three results of two stages
C20_Witness ==
    /\ Returned
    /\ Len(q) = 3
    /\ \A i \in Workers : emitted[i] # <<>>

(***************************************************************************)
(* parse_results_file and show_results.                                    *)
(*                                                                         *)
(* parse_results_file works on the characters of a line.  A text is a      *)
(* sequence of tokens; Explode gives its characters: the token " | " is a  *)
(* space, a pipe and a space, the tokens " " and "|" are one character     *)
(* each, and any other token is kept whole, standing for characters with   *)
(* no pipe among them and no space at either end.                          *)
(***************************************************************************)
MaxTitle == 3
MaxShown == 3

Separator == <<" ", "|", " ">>

RECURSIVE Explode(_)
Explode(text) ==
    IF text = <<>> THEN <<>>
    ELSE (IF Head(text) = " | " THEN Separator ELSE <<Head(text)>>) \o Explode(Tail(text))

RECURSIVE lstrip(_)
lstrip(chars) ==
    IF chars # <<>> /\ Head(chars) = " " THEN lstrip(Tail(chars)) ELSE chars

RECURSIVE rstrip(_)
rstrip(chars) ==
    IF chars # <<>> /\ chars[Len(chars)] = " "
    THEN rstrip(SubSeq(chars, 1, Len(chars) - 1))
    ELSE chars

\* str.strip()
strip(chars) == rstrip(lstrip(chars))

\* str.split(" | "): the text is read from the left and cut at every
\* separator found, the search going on behind the separator; part is the
\* part being read
RECURSIVE split(_, _)
split(chars, part) ==
    IF chars = <<>> THEN <<part>>
    ELSE IF Len(chars) >= 3 /\ SubSeq(chars, 1, 3) = Separator
         THEN <<part>> \o split(SubSeq(chars, 4, Len(chars)), <<>>)
         ELSE split(Tail(chars), Append(part, Head(chars)))

\* " | ".join(parts)
RECURSIVE join(_)
join(parts) ==
    IF parts = <<>> THEN <<>>
    ELSE IF Len(parts) = 1 THEN parts[1]
    ELSE parts[1] \o Separator \o join(Tail(parts))

\* int(text): the number a decimal numeral stands for, white space around it
\* ignored; NoneVal for the ValueError any other text gives
int(chars) ==
    LET numeral == strip(chars)
        Values == {n \in 0..100 : <<IntStr(n)>> = numeral}
    IN  IF Values = {} THEN NoneVal ELSE Some(CHOOSE n \in Values : TRUE)

\* the body of parse_results_file's loop for one stripped line; NoneVal for
\* the ValueError of an unpacking with fewer than four parts or of int
parse_line(line) ==
    LET parts == split(line, <<>>)
        n == Len(parts)
    IN  IF n < 4 THEN NoneVal
        ELSE LET date == parts[1]
                 similarity == int(parts[2])
                 title == join(SubSeq(parts, 3, n - 2))
                 uploader == parts[n - 1]
                 url == parts[n]
             IN  IF similarity = NoneVal THEN NoneVal
                 ELSE Some(SearchResult(
                        colored(date, "white") \o Separator
                          \o <<IntStr(similarity[1])>> \o Separator
                          \o colored(title, "green") \o Separator
                          \o colored(uploader, "yellow") \o Separator \o url,
                        date \o Separator \o <<IntStr(similarity[1])>> \o Separator
                          \o title \o Separator \o uploader \o Separator \o url,
                        "",
                        similarity[1]))

\* list(parse_results_file()): one result per line of the file, or NoneVal
\* when a line raises
parse_results_file(file) ==
    LET parsed == [k \in DOMAIN file |-> parse_line(strip(Explode(file[k])))]
    IN  IF \E k \in DOMAIN parsed : parsed[k] = NoneVal THEN NoneVal
        ELSE Some([k \in DOMAIN parsed |-> parsed[k][1]])

\* sorted(results, key=lambda r: r.similarity, reverse=False): ascending, and
\* stable, results of equal similarity keeping their order
RECURSIVE sorted(_)
sorted(seq) ==
    IF seq = <<>> THEN <<>>
    ELSE LET last == seq[Len(seq)]
             front == sorted(SubSeq(seq, 1, Len(seq) - 1))
             NotAbove(r) == r.similarity <= last.similarity
             Above(r) == r.similarity > last.similarity
         IN  SelectSeq(front, NotAbove) \o <<last>> \o SelectSeq(front, Above)

\* if not results: results = list(parse_results_file())
ShowLoad ==
    /\ mpc = "show"
    /\ IF q # <<>>
       THEN to_show' = q /\ mpc' = "sort"
       ELSE LET loaded == parse_results_file(results_txt)
            IN  IF loaded = NoneVal
                THEN to_show' = <<>> /\ mpc' = "show_raised"
                ELSE to_show' = loaded[1] /\ mpc' = "sort"
    /\ UNCHANGED <<inputs, results_txt, locals, mi, workerVars, results, unfinished,
                   store, cpc, cres, q, stdout, arrival>>

\* results = sorted(...)
ShowSort ==
    /\ mpc = "sort"
    /\ to_show' = sorted(to_show)
    /\ mi' = 1
    /\ mpc' = "print"
    /\ UNCHANGED <<inputs, results_txt, locals, workerVars, results, unfinished,
                   store, cpc, cres, q, stdout, arrival>>

\* ShowPrint with > for >=
ShowPrint_Strict ==
    /\ mpc = "print"
    /\ mi <= Len(to_show)
    /\ stdout' = IF to_show[mi].similarity > args.min_similarity
                 THEN Append(stdout, to_show[mi].colored_display)
                 ELSE stdout
    /\ mi' = mi + 1
    /\ UNCHANGED <<inputs, results_txt, locals, mpc, workerVars, results, unfinished,
                   store, cpc, cres, q, arrival, to_show>>

\* one turn of `for result in results`: print if similarity >= min_similarity
ShowPrint ==
    /\ mpc = "print"
    /\ mi <= Len(to_show)
    /\ stdout' = IF to_show[mi].similarity >= args.min_similarity
                 THEN Append(stdout, to_show[mi].colored_display)
                 ELSE stdout
    /\ mi' = mi + 1
    /\ UNCHANGED <<inputs, results_txt, locals, mpc, workerVars, results, unfinished,
                   store, cpc, cres, q, arrival, to_show>>

\* the loop ends and show_results returns
ShowEnd ==
    /\ mpc = "print"
    /\ mi > Len(to_show)
    /\ mpc' = "shown"
    /\ UNCHANGED <<inputs, results_txt, locals, mi, workerVars, results, unfinished,
                   store, cpc, cres, q, stdout, arrival, to_show>>

(***************************************************************************)
(* show_results called on its own: min_similarity and the list are drawn   *)
(* from bounded sets; with an empty list, results.txt holds lines that     *)
(* print_results wrote for results of format_search_result.                *)
(***************************************************************************)
\* the titles of at most MaxTitle characters over a letter, space and pipe
Titles == UNION {[1..n -> {"x", " ", "|"}] : n \in 0..MaxTitle}

\* the result search yields for a record and a search string
ResultOf(record, search_string) ==
    LET similarity == partial_ratio(record.title, search_string)
        texts == format_search_result(record, similarity)
    IN  SearchResult(texts[1], texts[2], search_string, similarity)

Pool == {ResultOf(record, s) : record \in {V1, V2, V3}, s \in {"foo bar", "unrelated"}}

\* the lists of one to MaxShown results
ResultLists == UNION {[1..n -> Pool] : n \in 1..MaxShown}

\* the line written for a video with the given title and similarity
LineOf(title, similarity) ==
    format_search_result(VideoData("t1", "up", "20230105", title), similarity)[2]

ResultFiles ==
    {<<>>} \cup {<<LineOf(t, n)>> : t \in Titles, n \in {7, 60, 100}}
           \cup {<<StaleLine, LineOf(t, n)>> : t \in Titles, n \in {7, 60, 100}}

InitShow ==
    /\ args \in {[a EXCEPT !.min_similarity = m] :
                    a \in {b \in ArgsSet : b.search_terms = <<>> /\ b.file = <<>>
                                           /\ b.ignore_uploaders = <<>>
                                           /\ b.known = "none"},
                    m \in {0, 60, 100}}
    /\ ytdlp = <<>>
    /\ playlist = {"a2"}
    /\ known_ids_pkl = {"a2"}
    /\ \/ q = <<>> /\ results_txt \in ResultFiles
       \/ q \in ResultLists /\ results_txt = [k \in DOMAIN q |-> q[k].display]
    /\ known_ids = {}
    /\ search_terms = <<>>
    /\ ignore_dates = <<>>
    /\ ignored_channels = <<>>
    /\ mpc = "show"
    /\ mi = 1
    /\ wpc = <<>>
    /\ wpos = <<>>
    /\ wres = <<>>
    /\ emitted = <<>>
    /\ results = <<>>
    /\ unfinished = 0
    /\ store = <<>>
    /\ cpc = "unstarted"
    /\ cres = <<>>
    /\ stdout = <<>>
    /\ arrival = <<>>
    /\ to_show = <<>>

NextShow ==
    \/ ShowLoad
    \/ ShowSort
    \/ ShowPrint
    \/ ShowEnd

SpecShow == InitShow /\ [][NextShow]_vars

(***************************************************************************)
(* C13.  Claimed: a failure to open or write results.txt aborts the run.   *)
(***************************************************************************)
\* run has not returned and no thread of the run can take a step
Blocked == ~Returned /\ ~ENABLED NextPersist

\* C13 as claimed: once opening or writing results.txt has raised in the
\* consumer, run does not return a result list and does not block forever
C13_PersistenceFailureAborts ==
    cpc = "raised" => ~Returned /\ ~Blocked

\* what the code does: with a result emitted, run blocks forever in
\* results.join() after the consumer has raised
C13_BlockedInJoin ==
    /\ cpc = "raised"
    /\ Blocked
    /\ mpc = "join_workers" /\ \A i \in Workers : Ended(i)
    /\ unfinished > 0

(***************************************************************************)
(* C11.  Claimed: a line written by print_results is read back by          *)
(* parse_results_file with the same fields, whatever pipes the title has.  *)
(***************************************************************************)
\* the result parse_results_file is to give for a line format_search_result
\* made, its fields taken by their places in the line: the date and score
\* first, the url and uploader last, the title everything between
Recovered(line, similarity) ==
    LET n == Len(line)
        date == <<line[1]>>
        title == SubSeq(line, 5, n - 4)
        uploader == <<line[n - 2]>>
        url == <<line[n]>>
    IN  SearchResult(
            Explode(colored(date, "white") \o <<" | ", IntStr(similarity), " | ">>
                      \o colored(title, "green") \o <<" | ">>
                      \o colored(uploader, "yellow") \o <<" | ">> \o url),
            Explode(line), "", similarity)

\* show_results has read results.txt in place of an empty list
Loaded == mpc = "sort" /\ q = <<>>

\* C11 as claimed: parse_results_file gives one result per line of
\* results.txt, with the date, score, title, uploader and url the line was
\* written with, for every title made of letters, spaces and pipes
C11_RoundTrip ==
    /\ mpc # "show_raised"
    /\ Loaded =>
          /\ Len(to_show) = Len(results_txt)
          /\ \A k \in DOMAIN to_show :
                /\ IntStr(to_show[k].similarity) = results_txt[k][3]
                /\ to_show[k] = Recovered(results_txt[k], to_show[k].similarity)

\* what the code does: the line of a title that ends with a space and a pipe
\* is read back with that pipe at the head of the uploader
C11_PipeMovedToUploader ==
    /\ Loaded
    /\ results_txt = <<LineOf(<<"x", " ", "|">>, 60)>>
    /\ to_show[1].colored_display =
          Explode(colored(<<"2023-01-05">>, "white") \o <<" | ", "60", " | ">>
                    \o colored(<<"x">>, "green") \o <<" | ">>
                    \o colored(<<"|", " ", "up">>, "yellow")
                    \o <<" | ", "https://youtu.be/t1">>)

(***************************************************************************)
(* C19.  show_results prints the results at or above min_similarity, each  *)
(* once, by ascending similarity, equal scores in input order.             *)
(***************************************************************************)
\* the similarities of the results of a list
Scores(seq) == {seq[k].similarity : k \in DOMAIN seq}

\* the results of a list that have the given similarity, in the list's order
WithScore(seq, n) ==
    LET Test(r) == r.similarity = n
    IN  SelectSeq(seq, Test)

\* C19: given a non-empty list, when show_results has returned, its list is
\* the given one ranked by similarity, lowest first, the results of each
\* score in their input order, and what it has printed is, in that order, the
\* colored_display of each result whose similarity is at least min_similarity
C19_RankedAndFiltered ==
    (mpc = "shown" /\ q # <<>>) =>
        /\ \A j, k \in DOMAIN to_show :
              j < k => to_show[j].similarity <= to_show[k].similarity
        /\ \A n \in Scores(q) \cup Scores(to_show) :
              WithScore(to_show, n) = WithScore(q, n)
        /\ LET AtLeast(r) == r.similarity >= args.min_similarity
               kept == SelectSeq(to_show, AtLeast)
           IN  stdout = [k \in DOMAIN kept |-> kept[k].colored_display]

\* show_results has returned after a list of three results with two of equal
\* score, one below min_similarity and one at it, given out of rank
C19_Witness ==
    /\ mpc = "shown"
    /\ Len(q) = 3
    /\ to_show # q
    /\ Len(stdout) = 2
    /\ q[1].similarity = args.min_similarity
    /\ q[3].similarity = args.min_similarity
    /\ q[1] # q[3]
    /\ q[2].similarity < args.min_similarity

(***************************************************************************)
(* main: run with print_results as the consumer, then show_results on the  *)
(* list run returns.  The consumer is a daemon thread that run starts and  *)
(* never waits for, so its open of results.txt can come after run's return *)
(* when no result keeps results.join() waiting.                            *)
(***************************************************************************)
\* show_results(results=results, min_similarity=args.min_similarity)
MainShow ==
    /\ mpc = "returned"
    /\ mpc' = "show"
    /\ UNCHANGED <<inputs, results_txt, locals, mi, workerVars, results, unfinished,
                   store, cpc, cres, q, stdout, arrival, to_show>>

InitMain == Init /\ args.known = "none" /\ args.ignore_uploaders = <<>>

NextMain ==
    \/ Next
    \/ MainShow
    \/ ShowLoad
    \/ ShowSort
    \/ ShowPrint
    \/ ShowEnd

SpecMain == InitMain /\ [][NextMain]_vars

(***************************************************************************)
(* C21.  Claimed: what show_results prints in main was emitted by the run. *)
(***************************************************************************)
\* the display texts of the results the stages of this run have emitted
EmittedTexts == {Explode(AllEmitted[k].display) : k \in DOMAIN AllEmitted}

\* the results show_results has printed so far
ShowPrinted ==
    IF mpc \in {"print", "shown"}
    THEN LET AtLeast(r) == r.similarity >= args.min_similarity
         IN  SelectSeq(SubSeq(to_show, 1, mi - 1), AtLeast)
    ELSE <<>>

\* C21 as claimed: in main, every result show_results prints is a result a
\* search stage of this run emitted, so a run that emits nothing prints
\* nothing, whenever the consumer opens results.txt
C21_ShownWereEmitted ==
    \A k \in DOMAIN ShowPrinted : Explode(ShowPrinted[k].display) \in EmittedTexts

\* what the code does: run returns its empty list before the consumer has
\* opened results.txt, show_results reads the file an earlier run left and
\* prints that run's line
C21_StaleLinePrinted ==
    /\ mpc = "shown"
    /\ AllEmitted = <<>>
    /\ cpc = "open"
    /\ Len(ShowPrinted) = 1
    /\ ShowPrinted[1].display = Explode(StaleLine)
    /\ stdout = <<ShowPrinted[1].colored_display>>

(***************************************************************************)
(* The GUI: App.run runs secret_fills.run in a thread, with                *)
(* App.consume_results as the consumer, and joins that thread.  mpc is     *)
(* where the run thread is; thread.join() returns once it has returned.    *)
(***************************************************************************)
\* def consume_results(self, results: Queue, sp: Yaspin, quiet: bool = False):
\* the parameters after self, and those of them that have no default
consume_results_params == <<"results", "sp", "quiet">>
consume_results_required == {"results", "sp"}

\* run: Thread(target=consumer, args=(results,), kwargs=dict(quiet=args.quiet))
CallPositional == 1
CallKeywords == {"quiet"}

\* Python's binding of a call: the first parameters take the positional
\* arguments, the keyword arguments go by name, and a parameter left without
\* argument and without default is a TypeError
Binds(params, required, positional, keywords) ==
    required \subseteq ({params[k] : k \in 1..positional} \cup keywords)

\* the consumer thread calls consume_results(results, quiet=False): the call
\* enters the loop if its arguments bind, and otherwise raises TypeError,
\* which ends the thread
GuiConsumerCall ==
    /\ cpc = "open"
    /\ cpc' = IF Binds(consume_results_params, consume_results_required,
                       CallPositional, CallKeywords)
              THEN "get" ELSE "raised"
    /\ UNCHANGED <<inputs, results_txt, locals, mpc, mi, workerVars, results,
                   unfinished, store, cres, q, stdout, arrival, to_show>>

\* the rows consume_results has inserted into results_table: its loop is
\* never entered, the call raising before it
results_table == <<>>

\* the steps of run in the GUI.  The loop of consume_results and the get of
\* queue_into_list are left out, as no run reaches them: no result is ever
\* marked done, so results.join() returns only when nothing was emitted, and
\* then the store is empty
NextGui ==
    \/ Setup
    \/ StartWorker
    \/ StartConsumer
    \/ \E i \in Workers : WorkerNext(i)
    \/ \E i \in Workers : WorkerPutResults(i)
    \/ \E i \in Workers : WorkerPutStore(i)
    \/ GuiConsumerCall
    \/ JoinWorker
    \/ ResultsJoin
    \/ Return

SpecGui == Init /\ [][NextGui]_vars

(***************************************************************************)
(* C22.  Claimed: the GUI's run completes once every stage has ended, with *)
(* every emitted result inserted as a table row.                           *)
(***************************************************************************)
\* every search stage has been started and has ended
StagesEnded == mpc \notin {"setup", "start_workers"} /\ \A i \in Workers : Ended(i)

\* C22 as claimed: once every search stage has ended, the run thread is never
\* stuck short of its return, so thread.join() returns; and when it has
\* returned, the table has one row for every emitted result
C22_GuiRunCompletes ==
    StagesEnded =>
        /\ Returned \/ ENABLED NextGui
        /\ Returned => Len(results_table) = Len(AllEmitted)

\* what the code does: the consumer thread has ended with a TypeError, every
\* stage has ended after emitting a result, and the run thread waits in
\* results.join() for a task_done that no thread is left to give
C22_GuiBlockedInJoin ==
    /\ cpc = "raised"
    /\ StagesEnded
    /\ AllEmitted # <<>>
    /\ unfinished = Len(AllEmitted)
    /\ results_table = <<>>
    /\ ~Returned
    /\ ~ENABLED NextGui

====
